---- MODULE Spec2Model ----
(***************************************************************************)
(* Model of cli_tool.py: the CSV record loader (read_csv), the ranker      *)
(* (get_top_records), the renderers (format_to_yaml / format_to_json),     *)
(* the interactive menu and the top-level flow (main).                     *)
(*                                                                         *)
(* Text is a sequence of one-character strings, so that int(), strptime    *)
(* and the f-strings are computed character by character.  Python's None   *)
(* is the one-element sequence NoneVal, which no text equals.              *)
(***************************************************************************)
EXTENDS Integers, Sequences, FiniteSets, TLC

\* ------------------------------------------------------------------ bounds
\* Largest number of data lines of the input file (specification Spec).
MaxRows == 3
\* Largest number of records handed to the ranker directly (SpecRank).
MaxLen == 3

\* ------------------------------------------------------------------- text
NoneVal == <<"<None>">>

Digits == {"0", "1", "2", "3", "4", "5", "6", "7", "8", "9"}

DigitVal(c) ==
    CASE c = "0" -> 0 [] c = "1" -> 1 [] c = "2" -> 2 [] c = "3" -> 3
      [] c = "4" -> 4 [] c = "5" -> 5 [] c = "6" -> 6 [] c = "7" -> 7
      [] c = "8" -> 8 [] c = "9" -> 9

\* str.strip(): leading and trailing blanks removed.
RECURSIVE Strip(_)
Strip(s) ==
    IF s = <<>> THEN s
    ELSE IF Head(s) = " " THEN Strip(Tail(s))
    ELSE IF s[Len(s)] = " " THEN Strip(SubSeq(s, 1, Len(s) - 1))
    ELSE s

\* The value of a run of digits with single underscores between them.
RECURSIVE DigitsValue(_, _)
DigitsValue(s, acc) ==
    IF s = <<>> THEN acc
    ELSE IF Head(s) = "_" THEN DigitsValue(Tail(s), acc)
    ELSE DigitsValue(Tail(s), 10 * acc + DigitVal(Head(s)))

\* The digit part int() accepts: digits, optionally grouped by single "_".
IsIntBody(s) ==
    /\ s # <<>>
    /\ s[1] \in Digits
    /\ s[Len(s)] \in Digits
    /\ \A i \in 1..Len(s) : s[i] \in Digits \cup {"_"}
    /\ \A i \in 1..(Len(s) - 1) : ~(s[i] = "_" /\ s[i + 1] = "_")

\* int(x) of Python: TypeError for None; for text, blanks are stripped, one
\* sign is allowed, and anything else is a ValueError.
ParseInt(x) ==
    IF x = NoneVal THEN [ok |-> FALSE, err |-> "TypeError", val |-> 0]
    ELSE LET t == Strip(x)
             signed == t # <<>> /\ Head(t) \in {"+", "-"}
             body == IF signed THEN Tail(t) ELSE t
         IN  IF IsIntBody(body)
             THEN [ok |-> TRUE, err |-> "",
                   val |-> IF signed /\ Head(t) = "-"
                           THEN 0 - DigitsValue(body, 0)
                           ELSE DigitsValue(body, 0)]
             ELSE [ok |-> FALSE, err |-> "ValueError", val |-> 0]

\* The month and day groups of the regular expression strptime builds for
\* %m and %d: 1[0-2]|0[1-9]|[1-9] and 3[01]|[12]\d|0[1-9]|[1-9]| [1-9].
IsMonthText(s) ==
    \/ Len(s) = 2 /\ s[1] = "1" /\ s[2] \in {"0", "1", "2"}
    \/ Len(s) = 2 /\ s[1] = "0" /\ s[2] \in Digits \ {"0"}
    \/ Len(s) = 1 /\ s[1] \in Digits \ {"0"}

IsDayText(s) ==
    \/ Len(s) = 2 /\ s[1] = "3" /\ s[2] \in {"0", "1"}
    \/ Len(s) = 2 /\ s[1] \in {"1", "2"} /\ s[2] \in Digits
    \/ Len(s) = 2 /\ s[1] \in {"0", " "} /\ s[2] \in Digits \ {"0"}
    \/ Len(s) = 1 /\ s[1] \in Digits \ {"0"}

IsLeap(y) == y % 4 = 0 /\ (y % 100 # 0 \/ y % 400 = 0)

DaysInMonth(y, m) ==
    IF m = 2 THEN (IF IsLeap(y) THEN 29 ELSE 28)
    ELSE IF m \in {4, 6, 9, 11} THEN 30 ELSE 31

\* datetime.strptime(x, "%Y-%m-%d").date(): TypeError for None; ValueError
\* when the text does not match the format or names no calendar day.
ParseDate(x) ==
    IF x = NoneVal THEN [ok |-> FALSE, err |-> "TypeError"]
    ELSE LET Match(lm, ld) ==
                 /\ Len(x) = 6 + lm + ld
                 /\ \A i \in 1..4 : x[i] \in Digits
                 /\ x[5] = "-"
                 /\ IsMonthText(SubSeq(x, 6, 5 + lm))
                 /\ x[6 + lm] = "-"
                 /\ IsDayText(SubSeq(x, 7 + lm, 6 + lm + ld))
             Valid(lm, ld) ==
                 LET y == DigitsValue(SubSeq(x, 1, 4), 0)
                     m == DigitsValue(SubSeq(x, 6, 5 + lm), 0)
                     d == DigitsValue(Strip(SubSeq(x, 7 + lm, 6 + lm + ld)), 0)
                 IN  y >= 1 /\ d <= DaysInMonth(y, m)
         IN  IF \E lm \in {1, 2}, ld \in {1, 2} : Match(lm, ld) /\ Valid(lm, ld)
             THEN [ok |-> TRUE, err |-> ""]
             ELSE [ok |-> FALSE, err |-> "ValueError"]

\* str(n) of an integer, as an f-string renders it.
DigitChar(d) ==
    CASE d = 0 -> "0" [] d = 1 -> "1" [] d = 2 -> "2" [] d = 3 -> "3"
      [] d = 4 -> "4" [] d = 5 -> "5" [] d = 6 -> "6" [] d = 7 -> "7"
      [] d = 8 -> "8" [] d = 9 -> "9"

RECURSIVE NatToStr(_)
NatToStr(n) ==
    IF n < 10 THEN <<DigitChar(n)>>
    ELSE NatToStr(n \div 10) \o <<DigitChar(n % 10)>>

IntToStr(n) == IF n < 0 THEN <<"-">> \o NatToStr(0 - n) ELSE NatToStr(n)

\* What an f-string puts for a value that is text or None.
StrOf(x) == IF x = NoneVal THEN <<"N", "o", "n", "e">> ELSE x

\* ----------------------------------------------------------------- ranker
\* A key that leaves out the negation of points.
SortKeyAscendingPoints(x) == <<x.division, x.points>>

\* The sort key of get_top_records: (division, -points).
SortKey(x) == <<x.division, 0 - x.points>>

\* Python's order on pairs of integers.
TupleLess(a, b) == a[1] < b[1] \/ (a[1] = b[1] /\ a[2] < b[2])

\* An insertion that puts x before the elements of equal key: a sort that is
\* not stable.
RECURSIVE InsertSortedUnstable(_, _)
InsertSortedUnstable(s, x) ==
    IF s = <<>> THEN <<x>>
    ELSE IF ~TupleLess(<<s[Len(s)].division, 0 - s[Len(s)].points>>,
                       <<x.division, 0 - x.points>>)
         THEN InsertSortedUnstable(SubSeq(s, 1, Len(s) - 1), x) \o <<s[Len(s)]>>
         ELSE s \o <<x>>

\* x put into the sorted sequence s behind every element whose key is not
\* greater than its own.
RECURSIVE InsertSorted(_, _)
InsertSorted(s, x) ==
    IF s = <<>> THEN <<x>>
    ELSE IF TupleLess(SortKey(x), SortKey(s[Len(s)]))
         THEN InsertSorted(SubSeq(s, 1, Len(s) - 1), x) \o <<s[Len(s)]>>
         ELSE s \o <<x>>

\* sorted(records, key=...): a stable sort, ascending in the key.
RECURSIVE SortedByKey(_)
SortedByKey(s) ==
    IF s = <<>> THEN <<>>
    ELSE InsertSorted(SortedByKey(SubSeq(s, 1, Len(s) - 1)), s[Len(s)])

Min(a, b) == IF a < b THEN a ELSE b
Max(a, b) == IF a > b THEN a ELSE b

\* The slice s[1:n + 1]: the bounds shifted by one.
SliceShifted(s, n) ==
    IF n >= 0 THEN SubSeq(s, 2, Min(n + 1, Len(s)))
    ELSE SubSeq(s, 2, Max(Len(s) + n + 1, 0))

\* The slice s[:n - 1]: one element short.
SliceShort(s, n) ==
    IF n >= 1 THEN SubSeq(s, 1, Min(n - 1, Len(s)))
    ELSE SubSeq(s, 1, Max(Len(s) + n - 1, 0))

\* The slice s[:n] of Python: a negative n counts from the end.
SliceTo(s, n) ==
    IF n >= 0 THEN SubSeq(s, 1, Min(n, Len(s)))
    ELSE SubSeq(s, 1, Max(Len(s) + n, 0))

get_top_records(records, top_n) == SliceTo(SortedByKey(records), top_n)

\* --------------------------------------------------------------- renderer
InDivision == <<"I", "n", " ", "d", "i", "v", "i", "s", "i", "o", "n", " ">>
From == <<" ", "f", "r", "o", "m", " ">>
Performing == <<" ", "p", "e", "r", "f", "o", "r", "m", "i", "n", "g", " ">>

\* A dict is the sequence of its (key, value) pairs in insertion order.
\* The loop of format_to_yaml: one {"name", "details"} dict per record,
\* appended to output["records"].
RECURSIVE YamlLoop(_, _)
YamlLoop(records, out) ==
    IF records = <<>> THEN out
    ELSE LET record == Head(records)
             name == StrOf(record.firstname) \o <<" ">> \o StrOf(record.lastname)
             details == InDivision \o IntToStr(record.division) \o From
                            \o StrOf(record.date) \o Performing \o StrOf(record.summary)
         IN  YamlLoop(Tail(records),
                      Append(out, <<<<"name", name>>, <<"details", details>>>>))

\* The loop of format_to_json.
RECURSIVE JsonLoop(_, _)
JsonLoop(records, out) ==
    IF records = <<>> THEN out
    ELSE LET record == Head(records)
             name == StrOf(record.firstname) \o <<" ">> \o StrOf(record.lastname)
             details == InDivision \o IntToStr(record.division) \o From
                            \o StrOf(record.date) \o Performing \o StrOf(record.summary)
         IN  JsonLoop(Tail(records),
                      Append(out, <<<<"name", name>>, <<"details", details>>>>))

\* The place of a key in the alphabetical order a serializer sorts by.
KeyRank(k) == CASE k = "details" -> 1 [] k = "name" -> 2 [] k = "records" -> 3

\* The pairs of a dict in the order a serializer writes them: insertion
\* order, or sorted by key when sort_keys is set.
DumpDict(d, sort_keys) ==
    IF sort_keys
    THEN LET n == Len(d)
             PlaceOf(i) == Cardinality({j \in 1..n : KeyRank(d[j][1]) <= KeyRank(d[i][1])})
         IN  [p \in 1..n |-> d[CHOOSE i \in 1..n : PlaceOf(i) = p]]
    ELSE d

\* The document a serializer writes for {"records": [...]}: the notation and
\* the pairs of every dict in written order.
Dump(notation, output, sort_keys) ==
    [notation |-> notation,
     doc |-> [k \in 1..Len(output) |->
                 <<output[k][1],
                   [i \in 1..Len(output[k][2]) |-> DumpDict(output[k][2][i], sort_keys)]>>]]

\* yaml.dump(output): PyYAML sorts the keys unless told not to.
format_to_yaml_sorted(records) ==
    Dump("yaml", <<<<"records", YamlLoop(records, <<>>)>>>>, TRUE)

\* yaml.dump(output, sort_keys=False)
format_to_yaml(records) ==
    Dump("yaml", <<<<"records", YamlLoop(records, <<>>)>>>>, FALSE)

\* json.dumps(output, indent=2): sort_keys is False unless given.
format_to_json(records) ==
    Dump("json", <<<<"records", JsonLoop(records, <<>>)>>>>, FALSE)

\* -------------------------------------------------------------- the input
\* The six columns read_csv requires.
required_columns == {"firstname", "lastname", "date", "division", "points", "summary"}

StandardHeader == <<"firstname", "lastname", "date", "division", "points", "summary">>
\* A header without the points column.
ShortHeader == <<"firstname", "lastname", "date", "division", "summary">>
\* reader.fieldnames of a file with no line at all: None.
NoHeader == <<>>

DateOk == <<"2", "0", "2", "3", "-", "0", "5", "-", "0", "5">>
DateFeb30 == <<"2", "0", "2", "3", "-", "0", "2", "-", "3", "0">>
DateUnpadded == <<"2", "0", "2", "3", "-", "5", "-", "5">>

\* The first n fields of a data line under the standard header.
Line(firstname, date, division, points, n) ==
    SubSeq(<<firstname, <<"X">>, date, division, points, <<"T">>>>, 1, n)

\* The data lines an input file is made of: well-formed ones (two of them
\* equal in division and points, one written with a blank, a sign and a
\* negative number), ones with a field that does not parse, ones with fewer
\* fields than the header, and the empty line.
Lines ==
    { Line(<<"A">>, DateOk, <<"1">>, <<"5">>, 6),
      Line(<<"B">>, DateOk, <<"1">>, <<"5">>, 6),
      Line(<<"C">>, DateOk, <<" ", "2">>, <<"-", "3">>, 6),
      Line(<<"D">>, DateOk, <<"x">>, <<"5">>, 6),
      Line(<<"E">>, DateOk, <<"1">>, <<>>, 6),
      Line(<<"F">>, DateFeb30, <<"1">>, <<"5">>, 6),
      Line(<<"G">>, DateUnpadded, <<"1">>, <<"7">>, 6),
      Line(<<"H">>, DateOk, <<"1">>, <<"5">>, 3),
      Line(<<"I">>, DateOk, <<"2">>, <<"5">>, 5),
      <<>> }

SeqsUpTo(S, n) == UNION {[1..k -> S] : k \in 0..n}

\* The input files: one that cannot be opened, one with no line, one whose
\* header lacks a column, and the files with the standard header.
Files ==
    {[readable |-> FALSE, fieldnames |-> NoHeader, lines |-> <<>>],
     [readable |-> TRUE, fieldnames |-> NoHeader, lines |-> <<>>],
     [readable |-> TRUE, fieldnames |-> ShortHeader, lines |-> <<>>]}
    \cup [readable : {TRUE}, fieldnames : {StandardHeader}, lines : SeqsUpTo(Lines, MaxRows)]

\* What the user types for the number of records, the format and the
\* destination.
TopNInputs == {<<>>, <<"x">>, <<"0">>, <<"1">>, <<"-", "1">>}
FormatInputs == {<<>>, <<" ", "2">>}
NoPath == "<None>"
OutputFiles == {NoPath, "", "out.txt", "/nodir/out.txt"}

\* Whether open(path, "w") succeeds.
Writable(path) == path = "out.txt"

\* The row csv.DictReader makes of a line: the fields by column name, None
\* for the columns the line is too short for.
DictRow(fieldnames, line) ==
    [k \in {fieldnames[i] : i \in 1..Len(fieldnames)} |->
        LET i == CHOOSE i \in 1..Len(fieldnames) : fieldnames[i] = k
        IN  IF i <= Len(line) THEN line[i] ELSE NoneVal]

\* The rows the reader yields: DictReader skips the empty lines.
ReaderRows(f) ==
    LET kept == SelectSeq(f.lines, LAMBDA l : l # <<>>)
    IN  [i \in 1..Len(kept) |-> DictRow(f.fieldnames, kept[i])]

\* ------------------------------------------------------------------ state
VARIABLES
    file,           \* the input file the path names
    top_n,          \* interactive_menu's results
    output_format,
    output_file,
    rowIdx,         \* the rows the reader of read_csv has yielded
    records,        \* read_csv's list, then main's
    top_records,
    output,
    stdout,         \* what was written to sys.stdout, in order
    logfile,        \* what was written to cli_tool.log, in order
    outfile,        \* what was written to the destination file
    pc,
    exitStatus

vars == <<file, top_n, output_format, output_file, rowIdx, records, top_records,
          output, stdout, logfile, outfile, pc, exitStatus>>

\* The handlers logging.basicConfig installs.
LogHandlers == {"cli_tool.log", "sys.stdout"}

LogItem(level, msg) == [kind |-> "log", level |-> level, body |-> msg]
PrintItem(kind, body) == [kind |-> kind, level |-> "", body |-> body]

\* One logging call per item: every installed handler writes it.
Logging(items) ==
    /\ logfile' = IF "cli_tool.log" \in LogHandlers THEN logfile \o items ELSE logfile
    /\ stdout' = IF "sys.stdout" \in LogHandlers THEN stdout \o items ELSE stdout

NoOutput == [notation |-> "", doc |-> <<>>]

Init ==
    /\ file \in Files
    /\ top_n = 0
    /\ output_format = ""
    /\ output_file = NoPath
    /\ rowIdx = 0
    /\ records = <<>>
    /\ top_records = <<>>
    /\ output = NoOutput
    /\ stdout = <<>>
    /\ logfile = <<>>
    /\ outfile = <<>>
    /\ pc = "menu"
    /\ exitStatus = 0

\* sys.exit(1), with the messages logged before it.
Exit(items) ==
    /\ Logging(items)
    /\ pc' = "exit"
    /\ exitStatus' = 1

\* interactive_menu and main's first logging call.
Menu ==
    /\ pc = "menu"
    /\ \E typed \in TopNInputs, choice \in FormatInputs, dest \in OutputFiles :
          LET n == ParseInt(IF typed = <<>> THEN <<"3">> ELSE typed)
              prompts == <<PrintItem("prompt", "path"), PrintItem("prompt", "top_n")>>
                  \o (IF n.ok THEN <<>> ELSE <<PrintItem("print", "Invalid input")>>)
                  \o <<PrintItem("print", "Choose output format"),
                       PrintItem("print", "1) YAML"), PrintItem("print", "2) JSON"),
                       PrintItem("prompt", "choice"), PrintItem("prompt", "save")>>
                  \o (IF dest = NoPath THEN <<>> ELSE <<PrintItem("prompt", "output path")>>)
              info == <<LogItem("INFO", "Processing file")>>
          IN  /\ top_n' = IF n.ok THEN n.val ELSE 3
              /\ output_format' = IF Strip(choice) = <<"2">> THEN "json" ELSE "yaml"
              /\ output_file' = dest
              /\ stdout' = IF "sys.stdout" \in LogHandlers
                           THEN stdout \o prompts \o info ELSE stdout \o prompts
              /\ logfile' = IF "cli_tool.log" \in LogHandlers
                            THEN logfile \o info ELSE logfile
    /\ pc' = "open"
    /\ UNCHANGED <<file, rowIdx, records, top_records, output, outfile, exitStatus>>

\* read_csv up to its loop: open the file, read the header, check the columns.
OpenCsv ==
    /\ pc = "open"
    /\ IF ~file.readable \/ file.fieldnames = NoHeader
       THEN Exit(<<LogItem("ERROR", "Error reading CSV file")>>)
       ELSE IF ~(required_columns \subseteq {file.fieldnames[i] : i \in 1..Len(file.fieldnames)})
       THEN Exit(<<LogItem("ERROR", "Missing required columns in CSV file")>>)
       ELSE /\ pc' = "rows"
            /\ UNCHANGED <<stdout, logfile, exitStatus>>
    /\ UNCHANGED <<file, top_n, output_format, output_file, rowIdx, records,
                   top_records, output, outfile>>

\* What the body of read_csv's loop does with one row: "append", "skip"
\* (a ValueError, caught in the loop) or "raise" (any other exception).
RowOutcome(row) ==
    LET division == ParseInt(row.division)
        points == ParseInt(row.points)
        date == ParseDate(row.date)
        err == IF ~division.ok THEN division.err
               ELSE IF ~points.ok THEN points.err
               ELSE IF ~date.ok THEN date.err ELSE ""
    IN  IF err = "" THEN "append" ELSE IF err = "ValueError" THEN "skip" ELSE "raise"

\* The record read_csv appends for a row.
RecordOf(row) ==
    [firstname |-> row.firstname, lastname |-> row.lastname, date |-> row.date,
     division |-> ParseInt(row.division).val, points |-> ParseInt(row.points).val,
     summary |-> row.summary]

\* One turn of read_csv's loop.
ReadRow ==
    /\ pc = "rows"
    /\ rowIdx < Len(ReaderRows(file))
    /\ LET row == ReaderRows(file)[rowIdx + 1]
           outcome == RowOutcome(row)
       IN  /\ rowIdx' = rowIdx + 1
           /\ records' = IF outcome = "append" THEN Append(records, RecordOf(row)) ELSE records
           /\ IF outcome = "raise"
              THEN Exit(<<LogItem("ERROR", "Error reading CSV file")>>)
              ELSE /\ Logging(IF outcome = "skip"
                              THEN <<LogItem("WARNING", "Skipping invalid row")>> ELSE <<>>)
                   /\ UNCHANGED <<pc, exitStatus>>
    /\ UNCHANGED <<file, top_n, output_format, output_file, top_records, output, outfile>>

\* The end of read_csv: the warning for an empty list, and the return.
ReturnRecords ==
    /\ pc = "rows"
    /\ rowIdx = Len(ReaderRows(file))
    /\ Logging(IF records = <<>>
               THEN <<LogItem("WARNING", "CSV file contains no valid records")>> ELSE <<>>)
    /\ pc' = "loaded"
    /\ UNCHANGED <<file, top_n, output_format, output_file, rowIdx, records,
                   top_records, output, outfile, exitStatus>>

\* main after read_csv: no record is fatal.
CheckRecords ==
    /\ pc = "loaded"
    /\ IF records = <<>>
       THEN Exit(<<LogItem("ERROR", "No valid records found. Exiting.")>>)
       ELSE /\ Logging(<<LogItem("INFO", "Successfully read records")>>)
            /\ pc' = "rank"
            /\ UNCHANGED exitStatus
    /\ UNCHANGED <<file, top_n, output_format, output_file, rowIdx, records,
                   top_records, output, outfile>>

\* main: sort and take the top records.
Rank ==
    /\ pc = "rank"
    /\ top_records' = get_top_records(records, top_n)
    /\ Logging(<<LogItem("INFO", "Selected top records for output")>>)
    /\ pc' = "format"
    /\ UNCHANGED <<file, top_n, output_format, output_file, rowIdx, records,
                   output, outfile, exitStatus>>

\* main: format the records in the chosen notation.
Format ==
    /\ pc = "format"
    /\ output' = IF output_format = "json" THEN format_to_json(top_records)
                 ELSE format_to_yaml(top_records)
    /\ Logging(<<LogItem("INFO", "Formatted output")>>)
    /\ pc' = "write"
    /\ UNCHANGED <<file, top_n, output_format, output_file, rowIdx, records,
                   top_records, outfile, exitStatus>>

\* main: write the output to the file, or print it.
Write ==
    /\ pc = "write"
    /\ IF output_file # NoPath /\ output_file # ""
       THEN IF Writable(output_file)
            THEN /\ outfile' = Append(outfile, output)
                 /\ Logging(<<LogItem("INFO", "Output written to file")>>)
                 /\ pc' = "done"
                 /\ UNCHANGED exitStatus
            ELSE /\ Exit(<<LogItem("ERROR", "Failed to write output to file")>>)
                 /\ UNCHANGED outfile
       ELSE /\ stdout' = (stdout \o <<PrintItem("document", output)>>)
                           \o (IF "sys.stdout" \in LogHandlers
                               THEN <<LogItem("INFO", "Output printed to stdout.")>> ELSE <<>>)
            /\ logfile' = IF "cli_tool.log" \in LogHandlers
                          THEN Append(logfile, LogItem("INFO", "Output printed to stdout."))
                          ELSE logfile
            /\ pc' = "done"
            /\ UNCHANGED <<outfile, exitStatus>>
    /\ UNCHANGED <<file, top_n, output_format, output_file, rowIdx, records,
                   top_records, output>>

Next ==
    \/ Menu
    \/ OpenCsv
    \/ ReadRow
    \/ ReturnRecords
    \/ CheckRecords
    \/ Rank
    \/ Format
    \/ Write

Spec == Init /\ [][Next]_vars

\* ------------------------------------------------- the functions on their own
\* get_top_records and the formatters called directly, as the unit tests
\* call them, on records of the data model.
RankRecords ==
    [firstname : {<<"A">>, <<"B">>}, lastname : {<<"X">>}, date : {DateOk},
     division : {1}, points : {5}, summary : {<<"T">>}]
    \cup [firstname : {<<"A">>}, lastname : {<<"X">>}, date : {DateOk},
          division : {1, 2}, points : {5, 7}, summary : {<<"T">>}]

\* A record of the data model.
Rec(firstname, division, points) ==
    [firstname |-> firstname, lastname |-> <<"X">>, date |-> DateOk,
     division |-> division, points |-> points, summary |-> <<"T">>]

\* The records of the unit tests: divisions 1, 2, 1, 2 with points 90, 85,
\* 80, 70.
sample_records ==
    <<Rec(<<"J">>, 1, 90), Rec(<<"K">>, 2, 85), Rec(<<"L">>, 1, 80), Rec(<<"M">>, 2, 70)>>

TopNs == (0 - MaxLen - 1)..(MaxLen + 1)

InitRank ==
    /\ file = [readable |-> FALSE, fieldnames |-> NoHeader, lines |-> <<>>]
    /\ top_n \in TopNs
    /\ output_format = ""
    /\ output_file = NoPath
    /\ rowIdx = 0
    /\ records \in SeqsUpTo(RankRecords, MaxLen) \cup {sample_records}
    /\ top_records = <<>>
    /\ output = NoOutput
    /\ stdout = <<>>
    /\ logfile = <<>>
    /\ outfile = <<>>
    /\ pc = "call"
    /\ exitStatus = 0

CallGetTopRecords ==
    /\ pc = "call"
    /\ top_records' = get_top_records(records, top_n)
    /\ pc' = "ranked"
    /\ UNCHANGED <<file, top_n, output_format, output_file, rowIdx, records,
                   output, stdout, logfile, outfile, exitStatus>>

CallFormatToYaml ==
    /\ pc = "ranked"
    /\ output' = format_to_yaml(top_records)
    /\ pc' = "formatted"
    /\ UNCHANGED <<file, top_n, output_format, output_file, rowIdx, records,
                   top_records, stdout, logfile, outfile, exitStatus>>

CallFormatToJson ==
    /\ pc = "ranked"
    /\ output' = format_to_json(top_records)
    /\ pc' = "formatted"
    /\ UNCHANGED <<file, top_n, output_format, output_file, rowIdx, records,
                   top_records, stdout, logfile, outfile, exitStatus>>

NextRank ==
    \/ CallGetTopRecords
    \/ CallFormatToYaml
    \/ CallFormatToJson

SpecRank == InitRank /\ [][NextRank]_vars

\* ----------------------------------------------------------------- claims
\* Ascending by division and, within equal division, descending by points.
KeyOrdered(s) ==
    \A i, j \in 1..Len(s) :
        i < j => \/ s[i].division < s[j].division
                 \/ s[i].division = s[j].division /\ s[i].points >= s[j].points

Occurrences(s, x) == Cardinality({i \in 1..Len(s) : s[i] = x})

IsPermutationOf(s, t) ==
    /\ Len(s) = Len(t)
    /\ \A i \in 1..Len(t) : Occurrences(s, t[i]) = Occurrences(t, t[i])

\* The orderings of s that are sorted by the ranking key.
SortedOrderings(s) ==
    {[i \in 1..Len(s) |-> s[p[i]]] :
        p \in {q \in [1..Len(s) -> 1..Len(s)] :
                  /\ \A a, b \in 1..Len(s) : a # b => q[a] # q[b]
                  /\ KeyOrdered([i \in 1..Len(s) |-> s[q[i]]])}}

Ranked == pc \in {"ranked", "formatted"}

\* C1: for a non-negative top_n, get_top_records returns the first top_n
\* elements (all of them when there are fewer) of the input sorted ascending
\* by division and, within equal division, descending by points; on the
\* rows (1, 90), (2, 85), (1, 80), (2, 70) with top_n = 2 it returns
\* (1, 90), (1, 80).
C1_TopOfSorted ==
    /\ (Ranked /\ top_n >= 0) =>
          \E sorted \in SortedOrderings(records) :
              top_records = SubSeq(sorted, 1, Min(top_n, Len(records)))
    /\ (Ranked /\ records = sample_records /\ top_n = 2) =>
          top_records = <<Rec(<<"J">>, 1, 90), Rec(<<"L">>, 1, 80)>>

C1_Witness ==
    /\ pc = "ranked"
    /\ top_n >= 1
    /\ top_n < Len(records)
    /\ ~KeyOrdered(records)
    /\ top_records # SubSeq(records, 1, top_n)

\* The records of s whose division and points are those of x, in order.
WithKeyOf(s, x) ==
    SelectSeq(s, LAMBDA y : y.division = x.division /\ y.points = x.points)

\* Whether s can be had from t by leaving elements out.
RECURSIVE IsSubsequence(_, _)
IsSubsequence(s, t) ==
    IF s = <<>> THEN TRUE
    ELSE IF t = <<>> THEN FALSE
    ELSE IF Head(s) = Head(t) THEN IsSubsequence(Tail(s), Tail(t))
    ELSE IsSubsequence(s, Tail(t))

\* C4: ranking is stable: for every top_n, the records of the result that
\* are equal in (division, points) stand in the order they have in the input.
C4_Stable ==
    Ranked =>
        \A i \in 1..Len(top_records) :
            IsSubsequence(WithKeyOf(top_records, top_records[i]),
                          WithKeyOf(records, top_records[i]))

C4_Witness ==
    /\ pc = "ranked"
    /\ ~KeyOrdered(records)
    /\ \E i, j \in 1..Len(top_records) :
          /\ i < j
          /\ top_records[i] # top_records[j]
          /\ SortKey(top_records[i]) = SortKey(top_records[j])

\* C6 as stated: ranking is idempotent for every top_n: ranking the ranked
\* and truncated sequence again with the same top_n returns it unchanged.
\* A negative top_n, which the slice reads as "all but the last -top_n",
\* refutes it: each call drops further records.
C6_IdempotentEveryTopN ==
    Ranked => get_top_records(top_records, top_n) = top_records

\* C6 as amended: ranking is idempotent for every top_n of the ranker's
\* contract (a non-negative integer): ranking the ranked and truncated
\* sequence again with the same top_n returns it unchanged.
C6_Idempotent ==
    (Ranked /\ top_n >= 0) => get_top_records(top_records, top_n) = top_records

C6_Witness ==
    /\ pc = "ranked"
    /\ top_n >= 2
    /\ top_n < Len(records)
    /\ top_records # SubSeq(records, 1, top_n)
    /\ \E i, j \in 1..Len(top_records) :
          /\ top_records[i] # top_records[j]
          /\ SortKey(top_records[i]) = SortKey(top_records[j])

\* C7: when top_n is at least the length of the input, the result is a
\* permutation of the whole input, of the same length, sorted by the ranking
\* key; an empty input gives an empty result for every top_n.
C7_WholeInput ==
    /\ (Ranked /\ top_n >= Len(records)) =>
          /\ Len(top_records) = Len(records)
          /\ IsPermutationOf(top_records, records)
          /\ KeyOrdered(top_records)
    /\ (Ranked /\ records = <<>>) => top_records = <<>>

C7_Witness ==
    /\ pc = "ranked"
    /\ top_n > Len(records)
    /\ Len(records) >= 2
    /\ top_records # records

\* The entry the specification gives for a record: name before details.
ExpectedEntry(record) ==
    <<<<"name", record.firstname \o <<" ">> \o record.lastname>>,
      <<"details", InDivision \o IntToStr(record.division) \o From \o record.date
                       \o Performing \o record.summary>>>>

\* C8: format_to_yaml and format_to_json build the same document: a single
\* records list with one entry per input record, in input order, entry i
\* holding name = "<firstname> <lastname>" and details = "In division
\* <division> from <date> performing <summary>" of record i, name first.
C8_SameDocument ==
    pc = "formatted" =>
        /\ Len(output.doc) = 1
        /\ output.doc[1][1] = "records"
        /\ Len(output.doc[1][2]) = Len(top_records)
        /\ \A i \in 1..Len(top_records) :
              output.doc[1][2][i] = ExpectedEntry(top_records[i])
        /\ format_to_yaml(top_records).doc = format_to_json(top_records).doc

C8_Witness ==
    /\ pc = "formatted"
    /\ output.notation = "yaml"
    /\ Len(top_records) >= 2
    /\ top_records[1] # top_records[2]

\* The columns of the header.
HeaderColumns == {file.fieldnames[i] : i \in 1..Len(file.fieldnames)}

\* The process ended inside read_csv: its last message is one of the two
\* read_csv logs before sys.exit(1).
ExitedInReadCsv ==
    /\ pc = "exit"
    /\ logfile # <<>>
    /\ logfile[Len(logfile)].body \in
           {"Error reading CSV file", "Missing required columns in CSV file"}

\* C2: a data row whose division, points or date cannot be parsed is only
\* skipped: whenever the file can be read and its header has the six
\* required columns, read_csv returns instead of ending the process,
\* whatever the data rows hold, rows with fewer fields than the header
\* included.
C2_RowsNeverFatal ==
    (file.readable /\ required_columns \subseteq HeaderColumns) => ~ExitedInReadCsv

\* A calendar date written YYYY-MM-DD: four, two and two digits.
IsIsoDate(x) ==
    /\ x # NoneVal
    /\ Len(x) = 10
    /\ \A i \in {1, 2, 3, 4, 6, 7, 9, 10} : x[i] \in Digits
    /\ x[5] = "-"
    /\ x[8] = "-"
    /\ LET y == DigitsValue(SubSeq(x, 1, 4), 0)
           m == DigitsValue(SubSeq(x, 6, 7), 0)
           d == DigitsValue(SubSeq(x, 9, 10), 0)
       IN  y >= 1 /\ m \in 1..12 /\ d \in 1..DaysInMonth(y, m)

\* A row that passes the three checks of the specification.
IsValidRow(row) ==
    ParseInt(row.division).ok /\ ParseInt(row.points).ok /\ IsIsoDate(row.date)

\* The rows of the file the loop of read_csv accepts.
AcceptedRows == SelectSeq(ReaderRows(file), LAMBDA row : RowOutcome(row) = "append")

\* C3: the process ends with a non-zero status if and only if the input
\* cannot be read, a required column is missing from the header, there is no
\* valid record, or writing the destination fails.
C3_ExitStatus ==
    pc \in {"done", "exit"} =>
        (exitStatus # 0 <=>
            \/ ~file.readable
            \/ ~(required_columns \subseteq HeaderColumns)
            \/ AcceptedRows = <<>>
            \/ output_file \notin {NoPath, ""} /\ ~Writable(output_file))

\* C5: what read_csv returns is exactly the rows, in input order, whose
\* division and points parse as integers and whose date is a valid calendar
\* date in YYYY-MM-DD form, with the text fields unchanged and division and
\* points as the parsed integers.
C5_ExactlyValidRows ==
    pc = "loaded" =>
        LET valid == SelectSeq(ReaderRows(file), IsValidRow)
        IN  records = [i \in 1..Len(valid) |-> RecordOf(valid[i])]

\* C9: the stream that receives the formatted document receives no
\* diagnostic message: once the document is on stdout, stdout holds no line
\* of the logging channel.
C9_ChannelsSeparate ==
    (\E i \in 1..Len(stdout) : stdout[i].kind = "document") =>
        \A j \in 1..Len(stdout) : stdout[j].kind # "log"

\* C10: for every count interactive_menu hands to main, the document main
\* emits holds exactly min(max(top_n, 0), number of valid records) records.
C10_CountWithinTopN ==
    pc = "done" => Len(output.doc[1][2]) = Min(Max(top_n, 0), Len(records))

====
